---- MODULE Spec2Model ----
(***************************************************************************)
(* A model of gilliam-aws: the provisioning of a stage on EC2              *)
(* (gilliam_aws/ec2.py), the scoped remote sessions                        *)
(* (gilliam_aws/configure.py) and the create command                       *)
(* (gilliam_aws/commands.py).                                              *)
(*                                                                         *)
(* Python strings on which the code slices, joins or tests prefixes are    *)
(* sequences of one-character strings, so that '{0}-{1}'.format, startswith*)
(* and slicing are computed as the code computes them.                      *)
(***************************************************************************)
EXTENDS Integers, Sequences, FiniteSets, TLC

\* ------------------------------------------------------------------ bounds

\* How many times the reconciler is run in a row by the reconciliation driver.
MaxRuns == 2

\* How many instances the readiness wait is handed.
MaxInstances == 2

\* How many nodes a stage handed to the configuration has.
MaxNodes == 2

\* The create command is invoked at most this many times.
MaxCreates == 2

\* ----------------------------------------------------------------- strings

Dash == <<"-">>

StartsWith(s, p) == Len(p) <= Len(s) /\ SubSeq(s, 1, Len(p)) = p

\* '{0}-{1}'.format(prefix, name)
GroupNameBuggyNoDash(prefix, name) == prefix \o name
GroupName(prefix, name) == prefix \o Dash \o name

Range(s) == {s[x] : x \in DOMAIN s}

R_router == <<"r", "o", "u", "t", "e", "r">>
R_exec == <<"e", "x", "e", "c">>
R_sr == <<"s", "r">>

N_demo == <<"d", "e", "m", "o">>

\* -------------------------------------------------- security group topology

PortRule(p, f, t) == [kind |-> "port", proto |-> p, from |-> f, to |-> t, ref |-> <<>>]
RefRule(r) == [kind |-> "ref", proto |-> "", from |-> 0, to |-> 0, ref |-> r]

\* AmazonWebServicesStage.SECURITY_GROUPS, as role |-> rule entries
RouterRules == << PortRule("tcp", 22, 22), PortRule("tcp", 8080, 8080) >>
ExecRules == << RefRule(R_exec), RefRule(R_router), PortRule("tcp", 22, 22),
                PortRule("tcp", 9000, 9000), PortRule("tcp", 49153, 65535) >>
SrRules == << RefRule(R_exec), RefRule(R_router), PortRule("tcp", 3222, 3222) >>

Item(r, rules) == [role |-> r, rules |-> rules]

\* A dict is iterated in one fixed order that the code does not choose:
\* keys() and items() of the same dict agree on it.
Perms(S) ==
    {s \in [1..Cardinality(S) -> S] : \A x \in S : \E k \in DOMAIN s : s[k] = x}

SECURITY_GROUPS_ITEMS ==
    {Item(R_router, RouterRules), Item(R_exec, ExecRules), Item(R_sr, SrRules)}

SECURITY_GROUPS == Perms(SECURITY_GROUPS_ITEMS)

\* Other topologies the reconciler is run with: a role without rules and a
\* role that only refers to itself and its peer.
SmallTopologyItems ==
    {Item(R_router, << >>), Item(R_sr, << RefRule(R_router), PortRule("tcp", 3222, 3222) >>)}

Topologies == SECURITY_GROUPS \cup Perms(SmallTopologyItems)

DefaultAllowed == << "0.0.0.0/0" >>

AllowedChoices == { << >>, DefaultAllowed, << "0.0.0.0/0", "10.0.0.0/8" >> }

\* ------------------------------------------------------------------- state

VARIABLES
    pc,          \* position of the control thread
    name,        \* stage name (prefix of the group names)
    allowed,     \* allowed CIDR blocks
    spec,        \* the topology, in the dict's iteration order
    secGroups,   \* provider: group name |-> [id, rules]
    groupIds,    \* provider: number of group ids handed out
    calls,       \* mutating provider calls issued so far, in order
    groups,      \* _create_security_groups: role |-> group object
    i, j, k,     \* _create_security_groups: role, rule and CIDR loop positions
    rule,        \* _create_security_groups: the loop variable `rule`
    runStart,    \* Len(calls) when the current reconciliation run began
    runs,        \* finished reconciliation runs
    ec2,         \* provider: instance id |-> [state, sys, inst, groups, dns]
    instances,   \* the instance objects of the reservation (local view)
    polls,       \* the polls of the readiness wait, runs of not-ready polls as one
    stage,       \* the AmazonWebServicesStage object, once constructed
    h,           \* Create._configure: position in stage.iter_roles()
    initStep,    \* Configure._init: the command to run next
    hostString,  \* fabric: env.host_string of the innermost settings scope
    connections, \* fabric: hosts with a cached connection
    trace,       \* remote session events so far, in order
    leader,      \* Create._bootstrap: the host random.choice returned
    options,     \* the parsed command line of create
    environ,     \* os.environ
    existing,    \* whether a stage configuration of that name is on disk
    stageConfig, \* the StageConfig object (NoConfig before StageConfig.create)
    written,     \* what stage_config.write() wrote (NoConfig: nothing)
    exitStatus,  \* the status the process exited with (0: it has not exited)
    keyPairs,    \* provider: names of the key pairs
    keyFiles,    \* local: names of the saved private keys
    rows         \* the rows the status command has listed

sgVars == <<groups, i, j, k, rule>>
provVars == <<secGroups, groupIds>>
argVars == <<name, allowed, spec>>
waitVars == <<ec2, instances, polls>>
cfgVars == <<stage, h, initStep, hostString, connections, trace, leader>>
cmdVars == <<options, environ, existing, stageConfig, written, exitStatus,
            keyPairs, keyFiles, rows>>
nonSGVars == <<waitVars, cfgVars, cmdVars>>
nonWaitVars == <<argVars, provVars, calls, sgVars, runStart, runs, cfgVars, cmdVars>>
nonCfgVars == <<argVars, provVars, calls, sgVars, runStart, runs, waitVars>>
vars == <<pc, name, allowed, spec, secGroups, groupIds, calls, groups, i, j, k,
          rule, runStart, runs, ec2, instances, polls, stage, h, initStep,
          hostString, connections, trace, leader, options, environ, existing,
          stageConfig, written, exitStatus, keyPairs, keyFiles, rows>>

NoRule == <<>>

Call(op, target, args) == [op |-> op, target |-> target, args |-> args]

\* group.authorize(*rule): the positional arguments after to_port are
\* cidr_ip, src_group, ...; a keyword call passes src_group alone.
AuthArgs(p, f, t, rest, src) ==
    [ip_protocol |-> p, from_port |-> f, to_port |-> t, rest |-> rest, src_group |-> src]

\* The ingress rule a well-formed authorize call adds at the provider.
RuleOf(args) ==
    [ip_protocol |-> args.ip_protocol, from_port |-> args.from_port,
     to_port |-> args.to_port,
     cidr_ip |-> IF Len(args.rest) = 1 THEN args.rest[1] ELSE "",
     src_group |-> args.src_group]

\* A call is accepted when it names exactly one source (one CIDR or one group)
\* and the group does not hold the rule yet.
Accepted(gname, args) ==
    /\ gname \in DOMAIN secGroups
    /\ \/ Len(args.rest) = 1 /\ args.src_group = <<>>
       \/ Len(args.rest) = 0 /\ args.src_group # <<>>
    /\ RuleOf(args) \notin secGroups[gname].rules

Roles == {spec[x].role : x \in DOMAIN spec}

RulesOfRole(r) == (CHOOSE x \in Range(spec) : x.role = r).rules

CountCalls(cs, op, from) ==
    Cardinality({x \in DOMAIN cs : x > from /\ cs[x].op = op})

\* --------------------------------------------------- _create_security_groups

Raise == pc' = "raised"

FinishRun(result, cs) ==
    runs' = Append(runs, [result |-> result,
                          ret |-> [r \in DOMAIN groups |-> groups[r].id],
                          names |-> [r \in DOMAIN groups |-> groups[r].name],
                          prov |-> secGroups,
                          nCreate |-> CountCalls(cs, "create_security_group", runStart),
                          nAuth |-> CountCalls(cs, "authorize", runStart)])

\* _get_or_make_group(conn, '{0}-{1}'.format(prefix, name)) for the role at
\* position i of spec.keys()
GetOrMakeGroup ==
    /\ pc = "sg_groups"
    /\ i <= Len(spec)
    /\ LET r == spec[i].role
           gname == GroupName(name, r)
           next == IF i = Len(spec) THEN "sg_role" ELSE "sg_groups"
           ni == IF i = Len(spec) THEN 1 ELSE i + 1
           create == Append(calls, Call("create_security_group", gname, NoRule))
       IN \/ \* get_all_security_groups() raises
             /\ Raise /\ FinishRun("raised", calls)
             /\ UNCHANGED <<secGroups, groupIds, calls, groups, i>>
          \/ \* a group of that name exists
             /\ gname \in DOMAIN secGroups
             /\ groups' = (r :> [name |-> gname, id |-> secGroups[gname].id,
                                 rules |-> secGroups[gname].rules]) @@ groups
             /\ pc' = next /\ i' = ni
             /\ UNCHANGED <<secGroups, groupIds, calls, runs>>
          \/ \* no such group: create_security_group succeeds
             /\ gname \notin DOMAIN secGroups
             /\ calls' = create
             /\ groupIds' = groupIds + 1
             /\ secGroups' = (gname :> [id |-> groupIds + 1, rules |-> {}]) @@ secGroups
             /\ groups' = (r :> [name |-> gname, id |-> groupIds + 1, rules |-> {}]) @@ groups
             /\ pc' = next /\ i' = ni
             /\ UNCHANGED runs
          \/ \* no such group: create_security_group raises
             /\ gname \notin DOMAIN secGroups
             /\ calls' = create
             /\ Raise /\ FinishRun("raised", create)
             /\ UNCHANGED <<secGroups, groupIds, groups, i>>
    /\ UNCHANGED <<argVars, j, k, rule, runStart, nonSGVars>>

\* for name, rules in spec.items(): group = groups.get(name);
\* if group.rules: continue
HasRulesBuggyNever(g) == FALSE
HasRules(g) == g.rules # {}

SGNextRole ==
    /\ pc = "sg_role"
    /\ IF i > Len(spec)
       THEN /\ pc' = "sg_returned"
            /\ FinishRun("returned", calls)
            /\ UNCHANGED <<i, j>>
       ELSE /\ UNCHANGED runs
            /\ IF HasRules(groups[spec[i].role])
               THEN pc' = "sg_role" /\ i' = i + 1 /\ UNCHANGED j
               ELSE pc' = "sg_rule" /\ j' = 1 /\ UNCHANGED i
    /\ UNCHANGED <<argVars, provVars, calls, groups, k, rule, runStart, nonSGVars>>

\* One authorize call on the group of the role at position i: it adds the
\* rule, or it raises (a provider error, or a call that is not accepted).
AuthorizeOk(args) ==
    LET gname == groups[spec[i].role].name
    IN /\ Accepted(gname, args)
       /\ calls' = Append(calls, Call("authorize", gname, args))
       /\ secGroups' = [secGroups EXCEPT ![gname].rules = @ \cup {RuleOf(args)}]
       /\ UNCHANGED <<runs, groupIds>>

AuthorizeRaises(args) ==
    LET gname == groups[spec[i].role].name
        cs == Append(calls, Call("authorize", gname, args))
    IN /\ calls' = cs
       /\ Raise /\ FinishRun("raised", cs)
       /\ UNCHANGED provVars

\* for rule in rules: a tuple starts the loop over the allowed CIDRs, a role
\* name is authorized as group.authorize(src_group=groups.get(rule))
SrcGroupArgs(ref) ==
    AuthArgs("", 0, 0, <<>>, IF ref \in DOMAIN groups THEN groups[ref].name ELSE <<>>)

SGRule ==
    /\ pc = "sg_rule"
    /\ LET rules == spec[i].rules
       IN IF j > Len(rules)
          THEN /\ pc' = "sg_role" /\ i' = i + 1
               /\ UNCHANGED <<j, k, rule, provVars, calls, runs>>
          ELSE IF rules[j].kind = "port"
          THEN /\ rule' = AuthArgs(rules[j].proto, rules[j].from, rules[j].to, <<>>, <<>>)
               /\ k' = 1
               /\ pc' = "sg_allow"
               /\ UNCHANGED <<i, j, provVars, calls, runs>>
          ELSE /\ \/ AuthorizeOk(SrcGroupArgs(rules[j].ref)) /\ pc' = "sg_rule" /\ j' = j + 1
                  \/ AuthorizeRaises(SrcGroupArgs(rules[j].ref)) /\ UNCHANGED j
               /\ UNCHANGED <<i, k, rule>>
    /\ UNCHANGED <<argVars, groups, runStart, nonSGVars>>

\* for allow in allowed: rule = list(rule) + [allow]; group.authorize(*rule)
ExtendRuleFresh(r, allow) == [r EXCEPT !.rest = <<allow>>]
ExtendRule(r, allow) == [r EXCEPT !.rest = Append(@, allow)]

SGAllow ==
    /\ pc = "sg_allow"
    /\ IF k > Len(allowed)
       THEN /\ pc' = "sg_rule" /\ j' = j + 1
            /\ UNCHANGED <<k, rule, provVars, calls, runs>>
       ELSE /\ rule' = ExtendRule(rule, allowed[k])
            /\ \/ AuthorizeOk(rule') /\ pc' = "sg_allow" /\ k' = k + 1
               \/ AuthorizeRaises(rule') /\ UNCHANGED k
            /\ UNCHANGED j
    /\ UNCHANGED <<argVars, groups, i, runStart, nonSGVars>>

\* The reconciliation driver: the same call again, on the state the last run left.
SGRunAgain ==
    /\ pc \in {"sg_returned", "raised"}
    /\ Len(runs) < MaxRuns
    /\ pc' = "sg_groups"
    /\ groups' = <<>> /\ i' = 1 /\ j' = 1 /\ k' = 1 /\ rule' = NoRule
    /\ runStart' = Len(calls)
    /\ UNCHANGED <<argVars, provVars, calls, runs, nonSGVars>>

\* ---------------------------------------------------- provider, initially

NoStage == <<>>
\* env.host_string outside every settings scope (None), which no DNS name is.
NoHost == <<"None">>
NoDns == <<>>

\* Public DNS names the provider gives its instances.
H1 == <<"h", "1", ".", "x">>
H2 == <<"h", "2", ".", "x">>
H3 == <<"h", "3", ".", "x">>
HostNames == <<H1, H2, H3>>
NoConfig == <<>>
NoOptions == <<>>

\* No command is running.
NoCommand ==
    /\ options = NoOptions /\ environ = NoOptions /\ existing = FALSE
    /\ stageConfig = NoConfig /\ written = NoConfig /\ exitStatus = 0
    /\ keyPairs = {} /\ keyFiles = {}
    /\ rows = <<>>

\* Nothing has been configured yet.
NoSessions ==
    /\ stage = NoStage /\ h = 1 /\ initStep = 1
    /\ hostString = NoHost /\ connections = {} /\ trace = <<>> /\ leader = NoHost

ForeignRule ==
    [ip_protocol |-> "tcp", from_port |-> 443, to_port |-> 443,
     cidr_ip |-> "0.0.0.0/0", src_group |-> <<>>]

\* A provider state: some of the stage's groups exist already, each without
\* rules or with a rule of its own.
ProviderGroups(names) ==
    UNION { [S -> {{}, {ForeignRule}}] : S \in SUBSET names }

\* The stage's group names, the n-th having provider id n when it exists.
StageGroupNames == << GroupName(N_demo, R_router), GroupName(N_demo, R_exec),
                      GroupName(N_demo, R_sr) >>

SGInit ==
    /\ pc = "sg_groups"
    /\ name = N_demo
    /\ allowed \in AllowedChoices
    /\ spec \in Topologies
    /\ \E f \in ProviderGroups(Range(StageGroupNames)) :
          secGroups = [n \in DOMAIN f |->
                          [id |-> CHOOSE x \in DOMAIN StageGroupNames : StageGroupNames[x] = n,
                           rules |-> f[n]]]
    /\ groupIds = Len(StageGroupNames)
    /\ calls = <<>>
    /\ groups = <<>> /\ i = 1 /\ j = 1 /\ k = 1 /\ rule = NoRule
    /\ runStart = 0
    /\ runs = <<>>
    /\ ec2 = <<>> /\ instances = <<>> /\ polls = <<>>
    /\ NoSessions /\ NoCommand

SGNext == GetOrMakeGroup \/ SGNextRole \/ SGRule \/ SGAllow \/ SGRunAgain

SGSpec == SGInit /\ [][SGNext]_vars

\* ------------------------------------------------------- _wait_for_instances

\* The instance as image.run leaves it at the provider.
Launched(gs, dns) ==
    [state |-> "pending", sys |-> "initializing", inst |-> "initializing",
     groups |-> gs, dns |-> dns]

\* The provider brings an instance up, or fails to, and runs its two status
\* checks; none of this is the program's doing.
InstanceRuns(id) ==
    /\ ec2[id].state = "pending"
    /\ ec2' = [ec2 EXCEPT ![id].state = "running"]

InstanceFails(id) ==
    /\ ec2[id].state = "pending"
    /\ ec2' = [ec2 EXCEPT ![id].state = "terminated"]

SystemCheck(id) ==
    /\ ec2[id].state = "running" /\ ec2[id].sys = "initializing"
    /\ \E r \in {"ok", "impaired"} : ec2' = [ec2 EXCEPT ![id].sys = r]

InstanceCheck(id) ==
    /\ ec2[id].state = "running" /\ ec2[id].inst = "initializing"
    /\ \E r \in {"ok", "impaired"} : ec2' = [ec2 EXCEPT ![id].inst = r]

ProviderStep ==
    /\ \E id \in DOMAIN ec2 :
          InstanceRuns(id) \/ InstanceFails(id) \/ SystemCheck(id) \/ InstanceCheck(id)
    /\ UNCHANGED <<pc, instances, polls, nonWaitVars>>

\* conn.get_all_instance_status(instance_ids): one status per instance of the
\* list that is running; an instance in another state is not listed.
InstanceStatus(ids) ==
    {[id |-> id, system_status |-> ec2[id].sys, instance_status |-> ec2[id].inst] :
        id \in {x \in ids : x \in DOMAIN ec2 /\ ec2[x].state = "running"}}

\* The record of a poll: consecutive polls that found something not ready
\* are kept as one entry.
Polled(phase, notReady) ==
    IF notReady /\ polls # <<>> /\ polls[Len(polls)] = [phase |-> phase, notReady |-> TRUE]
    THEN polls
    ELSE Append(polls, [phase |-> phase, notReady |-> notReady])

\* i.update(): the state and the public DNS name as the provider has them; an
\* instance that is not running has no public DNS name
Updated(inst) ==
    [inst EXCEPT !.state = ec2[inst.id].state,
                 !.dns = IF ec2[inst.id].state = "running" THEN ec2[inst.id].dns ELSE NoDns]

\* _wait_for_instances_to_become_running: for i in instances: i.update();
\* then sleep while some instance is pending
StillPendingBuggyNone(insts) == {}
StillPending(insts) == {x \in DOMAIN insts : insts[x].state = "pending"}

WaitRunning ==
    /\ pc = "wait_running"
    /\ instances' = [x \in DOMAIN instances |-> Updated(instances[x])]
    /\ polls' = Polled(1, \E x \in DOMAIN instances' : instances'[x].state = "pending")
    /\ pc' = IF StillPending(instances') # {} THEN "wait_running_sleep" ELSE "wait_status"
    /\ UNCHANGED <<ec2, nonWaitVars>>

WaitRunningRaises ==
    /\ pc = "wait_running"
    /\ Raise
    /\ UNCHANGED <<waitVars, nonWaitVars>>

WaitRunningSleep ==
    /\ pc = "wait_running_sleep"
    /\ pc' = "wait_running"
    /\ UNCHANGED <<waitVars, nonWaitVars>>

\* _wait_for_system_and_instance_status_checks: the statuses that are not ok
NotPassedBuggySystemOnly(statuses) ==
    {st \in statuses : st.system_status # "ok"}
NotPassed(statuses) ==
    {st \in statuses : st.system_status # "ok" \/ st.instance_status # "ok"}

WaitStatus ==
    /\ pc = "wait_status"
    /\ LET statuses == InstanceStatus({instances[x].id : x \in DOMAIN instances})
       IN /\ polls' = Polled(2, \E st \in statuses :
                                   st.system_status # "ok" \/ st.instance_status # "ok")
          /\ pc' = IF NotPassed(statuses) = {} THEN "wait_returned" ELSE "wait_status_sleep"
    /\ UNCHANGED <<ec2, instances, nonWaitVars>>

WaitStatusRaises ==
    /\ pc = "wait_status"
    /\ Raise
    /\ UNCHANGED <<waitVars, nonWaitVars>>

WaitStatusSleep ==
    /\ pc = "wait_status_sleep"
    /\ pc' = "wait_status"
    /\ UNCHANGED <<waitVars, nonWaitVars>>

WaitPolls == WaitRunning \/ WaitRunningSleep \/ WaitStatus \/ WaitStatusSleep

WaitInit ==
    /\ pc = "wait_running"
    /\ name = N_demo /\ allowed = DefaultAllowed /\ spec = <<>>
    /\ secGroups = <<>> /\ groupIds = 0 /\ calls = <<>>
    /\ groups = <<>> /\ i = 1 /\ j = 1 /\ k = 1 /\ rule = NoRule
    /\ runStart = 0 /\ runs = <<>>
    /\ \E n \in 1..MaxInstances :
          /\ ec2 = [id \in 1..n |-> Launched(<<>>, HostNames[id])]
          /\ instances = [x \in 1..n |->
                             [id |-> x, state |-> "pending", groups |-> <<>>, dns |-> NoDns]]
    /\ polls = <<>>
    /\ NoSessions /\ NoCommand

WaitNext == WaitPolls \/ WaitRunningRaises \/ WaitStatusRaises \/ ProviderStep

WaitSpec == WaitInit /\ [][WaitNext]_vars

\* The polls are the control thread's own steps: it takes one whenever it can.
\* The provider is under no obligation.
FairWaitNext == WaitPolls \/ ProviderStep

FairWaitSpec == WaitInit /\ [][FairWaitNext]_vars /\ WF_vars(WaitPolls)

\* --------------------------------------------------- roles of a stage's nodes

ServiceRegistry ==
    <<"s", "e", "r", "v", "i", "c", "e", "-", "r", "e", "g", "i", "s", "t", "r", "y">>
Executor == <<"e", "x", "e", "c", "u", "t", "o", "r">>

\* group_role_map.get(role, role)
GroupRoleMapBuggyNoMapping(role) == role
GroupRoleMap(role) ==
    IF role = R_sr THEN ServiceRegistry
    ELSE IF role = R_exec THEN Executor
    ELSE role

\* AmazonWebServicesStage._roles: the groups that start with '<name>-', each
\* cut after the prefix and mapped
RolesOf(sname, groupNames) ==
    LET own == SelectSeq(groupNames, LAMBDA g : StartsWith(g, sname \o Dash))
    IN [x \in DOMAIN own |-> GroupRoleMap(SubSeq(own[x], Len(sname) + 2, Len(own[x])))]

\* AmazonWebServicesStage.iter_roles
IterRoles(st) ==
    [x \in DOMAIN st.nodes |->
        [host |-> st.nodes[x].dns, roles |-> RolesOf(st.name, st.nodes[x].groups)]]

Has(roles, r) == \E x \in DOMAIN roles : roles[x] = r

\* sep.join(parts)
RECURSIVE Join(_, _)
Join(sep, parts) ==
    IF parts = <<>> THEN <<>>
    ELSE IF Len(parts) = 1 THEN parts[1]
    ELSE parts[1] \o sep \o Join(sep, Tail(parts))

\* '{0}:3222'.format(hostname)
RegistryEndpoint(host) == host \o <<":", "3", "2", "2", "2">>

\* Create._make_service_registry_option
MakeServiceRegistryOptionBuggyReversed(st) ==
    LET with == SelectSeq(IterRoles(st), LAMBDA e : Has(e.roles, ServiceRegistry))
    IN Join(<<",">>, [x \in DOMAIN with |-> RegistryEndpoint(with[Len(with) + 1 - x].host)])
MakeServiceRegistryOptionBuggyEveryNode(st) ==
    Join(<<",">>, [x \in DOMAIN st.nodes |-> RegistryEndpoint(st.nodes[x].dns)])
MakeServiceRegistryOption(st) ==
    LET with == SelectSeq(IterRoles(st), LAMBDA e : Has(e.roles, ServiceRegistry))
    IN Join(<<",">>, [x \in DOMAIN with |-> RegistryEndpoint(with[x].host)])

\* Create._executor_name: node.split('.')[0]
RECURSIVE ExecutorName(_)
ExecutorName(host) ==
    IF host = <<>> \/ Head(host) = "." THEN <<>>
    ELSE <<Head(host)>> \o ExecutorName(Tail(host))

\* ' '.join(self._executor_name(host) for router hosts)
RoutersOption(st) ==
    LET with == SelectSeq(IterRoles(st), LAMBDA e : Has(e.roles, R_router))
    IN Join(<<" ">>, [x \in DOMAIN with |-> ExecutorName(with[x].host)])

\* ------------------------------------------------------- Configure (fabric)

\* The number of sudo commands of Configure._init
NumInitCommands == 8

Event(ev, host, what, n, detach, registry, routers, ok) ==
    [ev |-> ev, host |-> host, what |-> what, n |-> n, detach |-> detach,
     registry |-> registry, routers |-> routers, ok |-> ok]

\* with settings(key_filename=..., user=..., host_string=host):
OpenScope(host, kind) ==
    /\ hostString' = host
    /\ trace' = Append(trace, Event("open", host, kind, 0, FALSE, <<>>, <<>>, TRUE))
    /\ UNCHANGED connections

\* sudo(command): runs on env.host_string over its (cached) connection
Sudo(what, n, detach, registry, routers, ok) ==
    /\ trace' = Append(trace, Event("sudo", hostString, what, n, detach, registry, routers, ok))
    /\ connections' = connections \cup {hostString}
    /\ UNCHANGED hostString

\* Configure.docker_run: '-d' is among the options when detach is set
DetachDefault == TRUE
DockerRun(image, detach, registry, routers, ok) ==
    Sudo(image, 0, detach, registry, routers, ok)

\* leaving the settings scope, then finally: disconnect_all()
CloseScopeBuggyNoDisconnect ==
    /\ hostString' = NoHost
    /\ UNCHANGED <<trace, connections>>
CloseScope ==
    /\ hostString' = NoHost
    /\ trace' = Append(trace, Event("disconnect", hostString, "", 0, FALSE, <<>>, <<>>, TRUE))
    /\ connections' = {}

\* -------------------------------------------------------- Create._configure

Entry == IterRoles(stage)[h]

\* for hostname, roles in stage.iter_roles(): with configure.configure(hostname):
BootstrapPcBuggySkipped == "update_config"
BootstrapPc == "bootstrap"

CfgNextHost ==
    /\ pc = "configure"
    /\ IF h > Len(stage.nodes)
       THEN /\ pc' = BootstrapPc
            /\ UNCHANGED <<hostString, connections, trace, initStep>>
       ELSE /\ OpenScope(Entry.host, "configure")
            /\ initStep' = 1
            /\ pc' = "cfg_init"
    /\ UNCHANGED <<stage, h, leader, nonCfgVars, cmdVars>>

\* Configure._init: one sudo command after the other
CfgInit ==
    /\ pc = "cfg_init"
    /\ Sudo("init", initStep, FALSE, <<>>, <<>>, TRUE)
    /\ IF initStep = NumInitCommands
       THEN pc' = "cfg_registry" /\ UNCHANGED initStep
       ELSE pc' = "cfg_init" /\ initStep' = initStep + 1
    /\ UNCHANGED <<stage, h, leader, nonCfgVars, cmdVars>>

AfterInitFailureBuggyGoesOn == "cfg_registry"
AfterInitFailure == "cfg_exc"

CfgInitFails ==
    /\ pc = "cfg_init"
    /\ Sudo("init", initStep, FALSE, <<>>, <<>>, FALSE)
    /\ pc' = AfterInitFailure
    /\ UNCHANGED <<stage, h, initStep, leader, nonCfgVars, cmdVars>>

\* if 'service-registry' in roles: self._start_service_registry(...)
CfgRegistry ==
    /\ pc = "cfg_registry"
    /\ IF Has(Entry.roles, ServiceRegistry)
       THEN \E ok \in BOOLEAN :
               /\ DockerRun("service-registry", DetachDefault,
                            MakeServiceRegistryOption(stage), <<>>, ok)
               /\ pc' = IF ok THEN "cfg_proxy" ELSE "cfg_exc"
       ELSE /\ pc' = "cfg_proxy"
            /\ UNCHANGED <<hostString, connections, trace>>
    /\ UNCHANGED <<stage, h, initStep, leader, nonCfgVars, cmdVars>>

\* if 'executor' in roles: self._start_proxy(...)
CfgProxy ==
    /\ pc = "cfg_proxy"
    /\ IF Has(Entry.roles, Executor)
       THEN \E ok \in BOOLEAN :
               /\ DockerRun("proxy", DetachDefault,
                            MakeServiceRegistryOption(stage), <<>>, ok)
               /\ pc' = IF ok THEN "cfg_executor" ELSE "cfg_exc"
       ELSE /\ pc' = "cfg_exit"
            /\ UNCHANGED <<hostString, connections, trace>>
    /\ UNCHANGED <<stage, h, initStep, leader, nonCfgVars, cmdVars>>

\* self._start_executor(...)
CfgExecutor ==
    /\ pc = "cfg_executor"
    /\ \E ok \in BOOLEAN :
          /\ DockerRun("executor", DetachDefault, MakeServiceRegistryOption(stage), <<>>, ok)
          /\ pc' = IF ok THEN "cfg_exit" ELSE "cfg_exc"
    /\ UNCHANGED <<stage, h, initStep, leader, nonCfgVars, cmdVars>>

\* the body is done: the scope closes and the loop goes on
CfgExit ==
    /\ pc = "cfg_exit"
    /\ CloseScope
    /\ h' = h + 1
    /\ pc' = "configure"
    /\ UNCHANGED <<stage, initStep, leader, nonCfgVars, cmdVars>>

\* a sudo failed: the scope closes and the failure leaves the for loop, which
\* has no handler, as it leaves take_action
AfterHostFailureBuggySwallowed == "configure"
AfterHostFailure == "raised"

CfgExc ==
    /\ pc = "cfg_exc"
    /\ CloseScope
    /\ pc' = AfterHostFailure
    /\ UNCHANGED <<stage, h, initStep, leader, nonCfgVars, cmdVars>>

\* -------------------------------------------------------- Create._bootstrap

\* hostname = random.choice([h for (h, roles) in stage.iter_roles()])
BootSelect ==
    /\ pc = "bootstrap"
    /\ IF stage.nodes = <<>>
       THEN Raise /\ UNCHANGED leader
       ELSE /\ \E x \in DOMAIN stage.nodes : leader' = IterRoles(stage)[x].host
            /\ pc' = "boot_enter"
    /\ UNCHANGED <<stage, h, initStep, hostString, connections, trace, nonCfgVars, cmdVars>>

\* with configure.enter(hostname):
BootEnter ==
    /\ pc = "boot_enter"
    /\ OpenScope(leader, "enter")
    /\ pc' = "boot_run"
    /\ UNCHANGED <<stage, h, initStep, leader, nonCfgVars, cmdVars>>

\* configure.docker_run(image, '', env=env, detach=False)
BootstrapDetachBuggyDefault == DetachDefault
BootstrapDetach == FALSE

BootRun ==
    /\ pc = "boot_run"
    /\ \E ok \in BOOLEAN :
          /\ DockerRun("bootstrap", BootstrapDetach, MakeServiceRegistryOption(stage),
                       RoutersOption(stage), ok)
          /\ pc' = IF ok THEN "boot_exit" ELSE "boot_exc"
    /\ UNCHANGED <<stage, h, initStep, leader, nonCfgVars, cmdVars>>

BootExit ==
    /\ pc = "boot_exit"
    /\ CloseScope
    /\ pc' = "update_config"
    /\ UNCHANGED <<stage, h, initStep, leader, nonCfgVars, cmdVars>>

BootExc ==
    /\ pc = "boot_exc"
    /\ CloseScope
    /\ Raise
    /\ UNCHANGED <<stage, h, initStep, leader, nonCfgVars, cmdVars>>

ConfigureSteps ==
    CfgNextHost \/ CfgInit \/ CfgInitFails \/ CfgRegistry \/ CfgProxy \/ CfgExecutor
        \/ CfgExit \/ CfgExc

BootstrapSteps == BootSelect \/ BootEnter \/ BootRun \/ BootExit \/ BootExc

\* ------------------------------------------------------ Create.take_action

AMI_MAPPING == [r \in {"eu-west-1"} |-> "ami-2adc3c5d"]

\* sys.exit(message): the message goes to stderr and the status is 1
SysExit ==
    /\ pc' = "exited"
    /\ exitStatus' = 1

\* self._check_existing(...); stage_config = StageConfig.create(options.name)
CheckExisting ==
    /\ pc = "check_existing"
    /\ IF existing
       THEN SysExit /\ UNCHANGED stageConfig
       ELSE /\ stageConfig' = [v \in {} |-> ""]
            /\ pc' = "check_credentials"
            /\ UNCHANGED exitStatus
    /\ UNCHANGED <<options, environ, existing, written, keyPairs, keyFiles, rows,
                   nonCfgVars, cfgVars>>

\* self._check_credentials(stage_config, options)
CheckCredentials ==
    /\ pc = "check_credentials"
    /\ options' = [options EXCEPT
          !.access_key_id = IF @ = "" THEN environ.AWS_ACCESS_KEY_ID ELSE @,
          !.secret_access_key = IF @ = "" THEN environ.AWS_SECRET_ACCESS_KEY ELSE @]
    /\ pc' = "build_config"
    /\ UNCHANGED <<environ, existing, stageConfig, written, exitStatus, keyPairs,
                   keyFiles, rows, nonCfgVars, cfgVars>>

\* Create._build_config: the vars list, all of them required
ConfigVars(opts) ==
    << [var |-> "aws_access_key_id", value |-> opts.access_key_id, required |-> TRUE],
       [var |-> "aws_secret_access_key", value |-> opts.secret_access_key, required |-> TRUE],
       [var |-> "aws_region", value |-> opts.region, required |-> TRUE],
       [var |-> "aws_ec2_instance_type", value |-> opts.instance_type, required |-> TRUE] >>

MissingBuggyNotRequired(v) == FALSE
Missing(v) == v.required /\ v.value = ""

\* for (var, value, required) in vars: exit at the first one missing, set the others
BuildConfig ==
    /\ pc = "build_config"
    /\ LET vs == ConfigVars(options)
           bad == {x \in DOMAIN vs : Missing(vs[x])}
           stop == IF bad = {} THEN Len(vs) + 1
                   ELSE CHOOSE x \in bad : \A y \in bad : x <= y
       IN /\ stageConfig' = [v \in {vs[x].var : x \in 1..(stop - 1)} |->
                                (CHOOSE e \in Range(vs) : e.var = v).value]
          /\ IF bad = {}
             THEN pc' = "connect" /\ UNCHANGED exitStatus
             ELSE SysExit
    /\ UNCHANGED <<options, environ, existing, written, keyPairs, keyFiles, rows,
                   nonCfgVars, cfgVars>>

NoTarget == <<>>

\* conn = _connect(stage_config)
Connect ==
    /\ pc = "connect"
    /\ calls' = Append(calls, Call("connect", NoTarget, NoRule))
    /\ pc' = "keypair"
    /\ UNCHANGED <<argVars, provVars, sgVars, runStart, runs, waitVars, cfgVars, cmdVars>>

\* ------------------------------------------- AmazonWebServicesStage.create

\* _get_or_make_keypair(conn, key_dir, key_name), key_name = name; then the
\* reconciliation begins
GetOrMakeKeypair ==
    /\ pc = "keypair"
    /\ LET got == Append(calls, Call("get_all_key_pairs", name, NoRule))
           made == Append(got, Call("create_key_pair", name, NoRule))
       IN \/ \* the key pair exists
             /\ name \in keyPairs
             /\ calls' = got
             /\ pc' = "sg_groups" /\ runStart' = Len(got)
             /\ UNCHANGED <<keyPairs, keyFiles>>
          \/ \* another error than InvalidKeyPair.NotFound is raised again
             /\ calls' = got
             /\ Raise
             /\ UNCHANGED <<keyPairs, keyFiles, runStart>>
          \/ \* InvalidKeyPair.NotFound: create_key_pair, then key.save(key_dir)
             /\ name \notin keyPairs
             /\ calls' = made
             /\ keyPairs' = keyPairs \cup {name}
             /\ keyFiles' = keyFiles \cup {name}
             /\ pc' = "sg_groups" /\ runStart' = Len(made)
          \/ \* InvalidKeyPair.NotFound: create_key_pair raises
             /\ name \notin keyPairs
             /\ calls' = made
             /\ Raise
             /\ UNCHANGED <<keyPairs, keyFiles, runStart>>
    /\ UNCHANGED <<argVars, provVars, sgVars, runs, waitVars, cfgVars, options,
                   environ, existing, stageConfig, written, exitStatus, rows>>

\* security_groups=security_groups.values(): the groups of the mapping, by name
SecurityGroupValuesBuggyFirstOnly == << groups[spec[1].role].name >>
SecurityGroupValues == [x \in DOMAIN spec |-> groups[spec[x].role].name]

\* _reserve_instances(conn, config, security_groups, key_name)
Reserve ==
    /\ pc = "sg_returned"
    /\ LET region == stageConfig["aws_region"]
           got == Append(calls, Call("get_all_images", NoTarget, NoRule))
           ran == Append(got, Call("run_instances", NoTarget, NoRule))
           id == Cardinality(DOMAIN ec2) + 1
           gs == SecurityGroupValues
       IN IF region \notin DOMAIN AMI_MAPPING
          THEN \* AMI_MAPPING[...] raises KeyError
               Raise /\ UNCHANGED <<calls, ec2, instances>>
          ELSE \/ /\ calls' = got /\ Raise /\ UNCHANGED <<ec2, instances>>
               \/ /\ calls' = ran /\ Raise /\ UNCHANGED <<ec2, instances>>
               \/ /\ calls' = ran
                  /\ ec2' = (id :> Launched(gs, HostNames[id])) @@ ec2
                  /\ instances' = << [id |-> id, state |-> "pending", groups |-> gs,
                                      dns |-> NoDns] >>
                  /\ pc' = "wait_running"
    /\ UNCHANGED <<argVars, provVars, sgVars, runStart, runs, polls, cfgVars, cmdVars>>

\* return cls(config, name, res.instances, ssh_key_file=...)
StageCreated ==
    /\ pc = "wait_returned"
    /\ stage' = [name |-> name, nodes |-> instances, username |-> "ubuntu",
                 ssh_key_file |-> name]
    /\ pc' = "configure"
    /\ UNCHANGED <<h, initStep, hostString, connections, trace, leader, nonCfgVars, cmdVars>>

\* 'http://{0}:3222'.format(hostname)
RegistryUrl(host) == <<"h", "t", "t", "p", ":", "/", "/">> \o RegistryEndpoint(host)

\* step 3 and 4: stage_config.set('service_registry', ...), the repository if
\* one was given, stage_config.write()
UpdateConfig ==
    /\ pc = "update_config"
    /\ LET with == SelectSeq(IterRoles(stage), LAMBDA e : Has(e.roles, ServiceRegistry))
           urls == [x \in DOMAIN with |-> RegistryUrl(with[x].host)]
           c1 == ("service_registry" :> urls) @@ stageConfig
           c2 == IF options.repository # ""
                 THEN ("repository" :> options.repository) @@ c1 ELSE c1
       IN /\ stageConfig' = c2
          /\ written' = c2
    /\ pc' = "done"
    /\ UNCHANGED <<options, environ, existing, exitStatus, keyPairs, keyFiles, rows,
                   nonCfgVars, cfgVars>>

\* ----------------------------------------------------------- specifications

\* No reconciliation and no wait has run.
NoProvisioning ==
    /\ calls = <<>>
    /\ groups = <<>> /\ i = 1 /\ j = 1 /\ k = 1 /\ rule = NoRule
    /\ runStart = 0 /\ runs = <<>>
    /\ polls = <<>>

\* The group lists a node of stage 'demo' can carry.
NodeGroupChoices ==
    {SelectSeq(StageGroupNames, LAMBDA g : \E x \in S : StageGroupNames[x] = g) :
        S \in SUBSET DOMAIN StageGroupNames}

BuiltConfig ==
    [v \in {"aws_access_key_id", "aws_secret_access_key", "aws_region",
            "aws_ec2_instance_type"} |->
        CASE v = "aws_access_key_id" -> "AKIA"
          [] v = "aws_secret_access_key" -> "secret"
          [] v = "aws_region" -> "eu-west-1"
          [] v = "aws_ec2_instance_type" -> "m1.small"]

Options(key, secret, region, repository) ==
    [access_key_id |-> key, secret_access_key |-> secret, region |-> region,
     instance_type |-> "m1.small", repository |-> repository,
     bootstrap_tag |-> "latest"]

\* Create._configure, Create._bootstrap and the update of the stage
\* configuration, on a stage of running nodes with any groups.
ConfigInit ==
    /\ pc = "configure"
    /\ name = N_demo /\ allowed = DefaultAllowed /\ spec = <<>>
    /\ secGroups = <<>> /\ groupIds = 0
    /\ NoProvisioning
    /\ \E n \in 1..MaxNodes : \E gs \in [1..n -> NodeGroupChoices] :
          /\ ec2 = [id \in 1..n |->
                       [state |-> "running", sys |-> "ok", inst |-> "ok",
                        groups |-> gs[id], dns |-> HostNames[id]]]
          /\ instances = [x \in 1..n |->
                             [id |-> x, state |-> "running", groups |-> gs[x],
                              dns |-> HostNames[x]]]
    /\ stage = [name |-> name, nodes |-> instances, username |-> "ubuntu",
                ssh_key_file |-> name]
    /\ h = 1 /\ initStep = 1
    /\ hostString = NoHost /\ connections = {} /\ trace = <<>> /\ leader = NoHost
    /\ \E repo \in {"", "repo"} : options = Options("AKIA", "secret", "eu-west-1", repo)
    /\ environ = [AWS_ACCESS_KEY_ID |-> "", AWS_SECRET_ACCESS_KEY |-> ""]
    /\ existing = FALSE
    /\ stageConfig = BuiltConfig /\ written = NoConfig /\ exitStatus = 0
    /\ keyPairs = {name} /\ keyFiles = {name}
    /\ rows = <<>>

ConfigNext == ConfigureSteps \/ BootstrapSteps \/ UpdateConfig

ConfigSpec == ConfigInit /\ [][ConfigNext]_vars

\* What an earlier create of the stage left at the provider: nothing, the
\* groups without a rule, or the groups with rules.
EarlierGroups ==
    {f \in ProviderGroups(Range(StageGroupNames)) :
        /\ DOMAIN f \in {{}, Range(StageGroupNames)}
        /\ \A m, n \in DOMAIN f : f[m] = f[n]}

\* The create command, from the command line on.
Waiting == pc \in {"wait_running", "wait_running_sleep", "wait_status", "wait_status_sleep"}

Init ==
    /\ pc = "check_existing"
    /\ name = N_demo /\ allowed = DefaultAllowed /\ spec \in SECURITY_GROUPS
    /\ \E f \in EarlierGroups :
          secGroups = [n \in DOMAIN f |->
                          [id |-> CHOOSE x \in DOMAIN StageGroupNames : StageGroupNames[x] = n,
                           rules |-> f[n]]]
    /\ groupIds = Len(StageGroupNames)
    /\ NoProvisioning
    /\ ec2 = <<>> /\ instances = <<>>
    /\ NoSessions
    /\ \E key \in {"", "AKIA"}, secret \in {"", "secret"},
          region \in {"", "eu-west-1", "us-east-1"}, repo \in {"", "repo"} :
          options = Options(key, secret, region, repo)
    /\ environ \in {[AWS_ACCESS_KEY_ID |-> "", AWS_SECRET_ACCESS_KEY |-> ""],
                    [AWS_ACCESS_KEY_ID |-> "AKIAENV", AWS_SECRET_ACCESS_KEY |-> "secretenv"]}
    /\ existing \in BOOLEAN
    /\ stageConfig = NoConfig /\ written = NoConfig /\ exitStatus = 0
    /\ keyPairs \in SUBSET {name}
    /\ keyFiles \in SUBSET keyPairs
    /\ rows = <<>>

Next ==
    \/ CheckExisting \/ CheckCredentials \/ BuildConfig \/ Connect
    \/ GetOrMakeKeypair
    \/ GetOrMakeGroup \/ SGNextRole \/ SGRule \/ SGAllow
    \/ Reserve
    \/ WaitPolls \/ WaitRunningRaises \/ WaitStatusRaises
    \/ (Waiting /\ ProviderStep)
    \/ StageCreated
    \/ ConfigureSteps \/ BootstrapSteps
    \/ UpdateConfig

Spec == Init /\ [][Next]_vars

\* ------------------------------------------- Destroy.take_action, Stage.get

\* The lifecycle states of an instance.
LifeStates == {"pending", "running", "stopping", "stopped", "shutting-down", "terminated"}

\* is_active(instance)
ActiveStates == {"pending", "running", "stopping", "stopped"}

\* The states in which destroy leaves a node alone.
GoneStates == {"shutting-down", "terminated"}

\* A stage whose name the stage's name is a prefix of.
N_demos == N_demo \o <<"s">>

\* A stage whose name begins with the stage's name and a dash.
N_demo_prod == N_demo \o <<"-", "p", "r", "o", "d">>

\* The groups of a reservation: those of the stage, or those of another.
ReservationGroups ==
    { StageGroupNames, <<GroupName(N_demos, R_sr)>>, <<GroupName(N_demo_prod, R_sr)>> }

\* The instance object get_all_instances returns for an instance.
Node(id) ==
    [id |-> id, state |-> ec2[id].state, groups |-> ec2[id].groups,
     dns |-> IF ec2[id].state = "running" THEN ec2[id].dns ELSE NoDns]

\* if any([group_name.startswith(name + '-') for group_name in group_names])
BelongsBuggyNoDash(sname, groupNames) ==
    \E x \in DOMAIN groupNames : StartsWith(groupNames[x], sname)
Belongs(sname, groupNames) ==
    \E x \in DOMAIN groupNames : StartsWith(groupNames[x], sname \o Dash)

\* instances.extend(i for i in reservation.instances)  #if is_active(i))
CollectedActiveOnly(node) == node.state \in ActiveStates
Collected(node) == TRUE

\* _collect_instances(conn, name): every reservation holds one instance, and
\* the reservations come in the order of their ids
CollectInstances(sname) ==
    LET all == [id \in 1..Cardinality(DOMAIN ec2) |-> Node(id)]
    IN SelectSeq(all, LAMBDA n : Belongs(sname, n.groups) /\ Collected(n))

\* conn = _connect(self.app.config.stage_config)
DestroyConnect ==
    /\ pc = "destroy_connect"
    /\ calls' = Append(calls, Call("connect", NoTarget, NoRule))
    /\ pc' = "get"
    /\ UNCHANGED <<argVars, provVars, sgVars, runStart, runs, waitVars, cfgVars, cmdVars>>

\* AmazonWebServicesStage.get(conn, config, name): None when no node is found
StageGet ==
    /\ pc = "get"
    /\ calls' = Append(calls, Call("get_all_instances", NoTarget, NoRule))
    /\ \/ /\ Raise
          /\ UNCHANGED <<instances, stage>>
       \/ /\ instances' = CollectInstances(name)
          /\ stage' = IF instances' # <<>>
                      THEN [name |-> name, nodes |-> instances', username |-> "ubuntu",
                            ssh_key_file |-> ""]
                      ELSE NoStage
          /\ pc' = "got"
    /\ UNCHANGED <<argVars, provVars, sgVars, runStart, runs, ec2, polls, h, initStep,
                   hostString, connections, trace, leader, cmdVars>>

\* stage.destroy(conn): get's None has no destroy
DestroyEnter ==
    /\ pc = "got"
    /\ IF stage = NoStage
       THEN Raise /\ UNCHANGED <<h, runStart, instances>>
       ELSE /\ pc' = "destroy"
            /\ h' = 1
            /\ runStart' = Len(calls)
            /\ instances' = stage.nodes
    /\ UNCHANGED <<argVars, provVars, calls, sgVars, runs, ec2, polls, stage, initStep,
                   hostString, connections, trace, leader, cmdVars>>

\* inst.terminate() at the provider
Terminated(inst) ==
    [inst EXCEPT !.state = IF @ \in GoneStates THEN @ ELSE "shutting-down"]

\* if inst.state not in ["shutting-down", "terminated"]
SkippedBuggyNone(node) == FALSE
Skipped(node) == node.state \in GoneStates

\* for inst in self.nodes: ... inst.terminate(), which leaves the object with
\* the state the provider answers
DestroyNode ==
    /\ pc = "destroy"
    /\ h <= Len(stage.nodes)
    /\ LET node == stage.nodes[h]
       IN IF Skipped(node)
          THEN /\ h' = h + 1
               /\ UNCHANGED <<pc, calls, ec2, stage>>
          ELSE /\ calls' = Append(calls, Call("terminate", node.id, NoRule))
               /\ \/ /\ Raise
                     /\ UNCHANGED <<h, ec2, stage>>
                  \/ /\ ec2' = [ec2 EXCEPT ![node.id] = Terminated(@)]
                     /\ stage' = [stage EXCEPT !.nodes[h].state = ec2'[node.id].state,
                                               !.nodes[h].dns = NoDns]
                     /\ h' = h + 1
                     /\ UNCHANGED pc
    /\ UNCHANGED <<argVars, provVars, sgVars, runStart, runs, instances, polls, initStep,
                   hostString, connections, trace, leader, cmdVars>>

\* the loop of destroy is over
DestroyReturn ==
    /\ pc = "destroy"
    /\ h > Len(stage.nodes)
    /\ runs' = Append(runs, [result |-> "destroyed", start |-> runStart,
                             entry |-> instances])
    /\ pc' = "destroy_returned"
    /\ UNCHANGED <<argVars, provVars, calls, sgVars, runStart, waitVars, cfgVars, cmdVars>>

\* destroy is run again, on the stage object at hand or by the command
DestroyAgain ==
    /\ pc = "destroy_returned"
    /\ Len(runs) < MaxRuns
    /\ pc' \in {"got", "destroy_connect"}
    /\ UNCHANGED <<argVars, provVars, calls, sgVars, runStart, runs, waitVars, cfgVars,
                   cmdVars>>

\* The provider finishes shutting an instance down.
InstanceTerminates ==
    /\ pc \in {"destroy_connect", "get", "got", "destroy", "destroy_returned"}
    /\ \E id \in DOMAIN ec2 :
          /\ ec2[id].state = "shutting-down"
          /\ ec2' = [ec2 EXCEPT ![id].state = "terminated"]
    /\ UNCHANGED <<pc, instances, polls, nonWaitVars>>

\* The destroy command on a provider that holds instances in any state.
StageInit ==
    /\ pc = "destroy_connect"
    /\ name = N_demo /\ allowed = DefaultAllowed /\ spec = <<>>
    /\ secGroups = <<>> /\ groupIds = 0
    /\ NoProvisioning
    /\ \E n \in 0..MaxInstances :
          \E st \in [1..n -> LifeStates], gs \in [1..n -> ReservationGroups] :
              ec2 = [id \in 1..n |->
                        [state |-> st[id], sys |-> "ok", inst |-> "ok",
                         groups |-> gs[id], dns |-> HostNames[id]]]
    /\ instances = <<>>
    /\ NoSessions /\ NoCommand

StageNext ==
    \/ DestroyConnect \/ StageGet \/ DestroyEnter \/ DestroyNode \/ DestroyReturn
    \/ DestroyAgain \/ InstanceTerminates

StageSpec == StageInit /\ [][StageNext]_vars

\* ------------------------------------------------- the create command again

\* The create command is invoked again for the same name, after it exited,
\* failed or finished: a new process, with the provider, the local files and
\* the configuration on disk as the last one left them.
CreateAgain ==
    /\ pc \in {"exited", "raised", "done"}
    /\ CountCalls(calls, "connect", 0) < MaxCreates
    /\ pc' = "check_existing"
    /\ existing' = (existing \/ written # NoConfig)
    /\ stageConfig' = NoConfig /\ exitStatus' = 0
    /\ groups' = <<>> /\ i' = 1 /\ j' = 1 /\ k' = 1 /\ rule' = NoRule
    /\ instances' = <<>>
    /\ stage' = NoStage /\ h' = 1 /\ initStep' = 1
    /\ hostString' = NoHost /\ connections' = {} /\ leader' = NoHost
    /\ UNCHANGED <<argVars, provVars, calls, runStart, runs, ec2, polls, trace, options,
                   environ, written, keyPairs, keyFiles, rows>>

\* Create commands one after the other, the first on a provider that has
\* nothing of the stage, with credentials and a region that has an image.
RerunInit ==
    /\ Init
    /\ secGroups = <<>>
    /\ options = Options("AKIA", "secret", "eu-west-1", "")
    /\ environ = [AWS_ACCESS_KEY_ID |-> "", AWS_SECRET_ACCESS_KEY |-> ""]
    /\ ~existing
    /\ keyPairs = {}

RerunNext == Next \/ CreateAgain

RerunSpec == RerunInit /\ [][RerunNext]_vars

\* ----------------------------------------------------- Status.take_action

N_app == <<"a", "p", "p">>
N_app_prod == <<"a", "p", "p", "-", "p", "r", "o", "d">>
Unrelated == <<"u", "n", "r", "e", "l", "a", "t", "e", "d">>

\* Stage names and the group lists of a node the status command is run on.
StageNames == {N_demo, N_app, N_app_prod}

GroupLists ==
    { <<>>,
      <<Unrelated>>,
      <<GroupName(N_app_prod, R_sr), GroupName(N_app_prod, R_exec), Unrelated>>,
      <<GroupName(N_demo, R_router), GroupName(N_app_prod, R_router)>>,
      <<N_app_prod>>,
      <<N_app_prod \o Dash, N_demo \o R_sr>>,
      <<GroupName(N_demo, R_sr), Unrelated, GroupName(N_demo, R_sr)>> }

\* def it(stage): for node in stage.nodes: yield (node.id, node.public_dns_name,
\* node.state, ' '.join(stage._roles(node)), ...)
StatusRow ==
    /\ pc = "status_rows"
    /\ h <= Len(stage.nodes)
    /\ LET node == stage.nodes[h]
           roles == RolesOf(stage.name, node.groups)
       IN rows' = Append(rows, [id |-> node.id, host |-> node.dns, state |-> node.state,
                                roles |-> roles, text |-> Join(<<" ">>, roles)])
    /\ h' = h + 1
    /\ UNCHANGED <<pc, stage, initStep, hostString, connections, trace, leader, nonCfgVars,
                   options, environ, existing, stageConfig, written, exitStatus,
                   keyPairs, keyFiles>>

\* the generator is exhausted
StatusDone ==
    /\ pc = "status_rows"
    /\ h > Len(stage.nodes)
    /\ pc' = "status_done"
    /\ UNCHANGED <<nonCfgVars, cfgVars, cmdVars>>

\* The rows of the status command, for a stage object of any name whose nodes
\* carry any of the group lists.
StatusInit ==
    /\ pc = "status_rows"
    /\ name \in StageNames /\ allowed = DefaultAllowed /\ spec = <<>>
    /\ secGroups = <<>> /\ groupIds = 0
    /\ NoProvisioning
    /\ \E n \in 1..MaxNodes : \E gs \in [1..n -> GroupLists] :
          /\ ec2 = [id \in 1..n |->
                       [state |-> "running", sys |-> "ok", inst |-> "ok",
                        groups |-> gs[id], dns |-> HostNames[id]]]
          /\ instances = [x \in 1..n |-> Node(x)]
    /\ stage = [name |-> name, nodes |-> instances, username |-> "ubuntu",
                ssh_key_file |-> ""]
    /\ h = 1 /\ initStep = 1
    /\ hostString = NoHost /\ connections = {} /\ trace = <<>> /\ leader = NoHost
    /\ NoCommand

StatusNext == StatusRow \/ StatusDone

StatusSpec == StatusInit /\ [][StatusNext]_vars

\* ================================================================== claims

\* ---- C1
InReconciliation == pc \in {"sg_groups", "sg_role", "sg_rule", "sg_allow"}

RuleCounts(prov) == [g \in DOMAIN prov |-> Cardinality(prov[g].rules)]

\* C1: a run of _create_security_groups that follows a complete run with the
\* same prefix, allowed CIDRs and spec issues no create_security_group and no
\* authorize call, leaves the rule count of every group as the first run left
\* it, and returns the same roles mapped to the same groups.
C1_ReconcileIdempotent ==
    \A r \in DOMAIN runs :
        runs[r].result = "returned" =>
            /\ r < Len(runs) =>
                  /\ runs[r + 1].nCreate = 0
                  /\ runs[r + 1].nAuth = 0
                  /\ RuleCounts(runs[r + 1].prov) = RuleCounts(runs[r].prov)
                  /\ runs[r + 1].result = "returned" =>
                        /\ runs[r + 1].ret = runs[r].ret
                        /\ runs[r + 1].names = runs[r].names
            /\ (r = Len(runs) /\ InReconciliation) =>
                  /\ CountCalls(calls, "create_security_group", runStart) = 0
                  /\ CountCalls(calls, "authorize", runStart) = 0
                  /\ RuleCounts(secGroups) = RuleCounts(runs[r].prov)

\* A first run that created groups and authorized rules, and a second run
\* that returned.
C1_Witness ==
    /\ Len(runs) = 2
    /\ runs[1].result = "returned" /\ runs[2].result = "returned"
    /\ runs[1].nCreate > 0 /\ runs[1].nAuth > 0
    /\ \E g \in DOMAIN secGroups : secGroups[g].rules = {ForeignRule}

\* ---- C2
Ready(id) ==
    /\ ec2[id].state = "running"
    /\ ec2[id].sys = "ok"
    /\ ec2[id].inst = "ok"

\* C2: when _wait_for_instances has returned, every instance handed to it is
\* running and has passed its system and its instance status check.
C2_ReadyAtReturn ==
    pc = "wait_returned" =>
        \A x \in DOMAIN instances :
            instances[x].state = "running" /\ Ready(instances[x].id)

\* ---- C3
AllReady == \A x \in DOMAIN instances : Ready(instances[x].id)

LastPoll == polls[Len(polls)]

\* Every poll that found something not ready is followed by another poll of
\* its phase, the one state poll that found nothing pending by the status
\* polls, and the wait has returned exactly when the last poll is a status
\* poll that found every check ok.
C3_PollOrder ==
    /\ \A x \in 1..(Len(polls) - 1) :
          \/ polls[x].notReady /\ polls[x + 1].phase = polls[x].phase
          \/ ~polls[x].notReady /\ polls[x].phase = 1 /\ polls[x + 1].phase = 2
    /\ pc = "wait_returned" <=>
          (polls # <<>> /\ LastPoll = [phase |-> 2, notReady |-> FALSE])

\* C3: the readiness wait does not return at or before a poll that found an
\* instance pending or a status check not ok, polls no more once a status poll
\* found every check ok, and returns whenever the polled states come to be
\* all running and all ok.
C3_ReadinessConvergence ==
    /\ []C3_PollOrder
    /\ (<>[]AllReady) => <>(pc = "wait_returned")

\* The wait returned after polls of both phases that found something not
\* ready, with every instance ready.
C3_Witness ==
    /\ pc = "wait_returned"
    /\ Len(instances) = 2
    /\ AllReady
    /\ Len(polls) = 4
    /\ polls[1].notReady /\ polls[3].notReady

\* ---- trace helpers
Sudos == {x \in DOMAIN trace : trace[x].ev = "sudo"}

RoleActions == {"service-registry", "proxy", "executor"}

\* The open or disconnect event last before position x (0: none).
LastMark(x) ==
    LET marks == {y \in 1..(x - 1) : trace[y].ev \in {"open", "disconnect"}}
    IN IF marks = {} THEN 0 ELSE CHOOSE y \in marks : \A z \in marks : z <= y

Rank(what) ==
    CASE what = "init" -> 0
      [] what = "service-registry" -> 1
      [] what = "proxy" -> 2
      [] what = "executor" -> 3
      [] OTHER -> 4

RolesOfHost(host) ==
    LET e == CHOOSE e \in Range(IterRoles(stage)) : e.host = host IN e.roles

\* ---- C4
\* C4: on every host the commands of the configuration scope come in the
\* order base initialization (its commands one after the other, each once in
\* the whole workflow), registry start only on a 'service-registry' host, then
\* proxy start and executor start only on an 'executor' host; a role action
\* follows the complete and successful base initialization of its host.
C4_ConfigureOrder ==
    \A x \in Sudos :
        LET e == trace[x]
            before == {y \in Sudos : y < x /\ trace[y].host = e.host}
        IN /\ e.what = "init" =>
                 /\ trace[LastMark(x)].what = "configure"
                 /\ {trace[y].n : y \in before} = 1..(e.n - 1)
                 /\ \A y \in before : trace[y].what = "init"
           /\ e.what \in RoleActions =>
                 /\ trace[LastMark(x)].what = "configure"
                 /\ \A n \in 1..NumInitCommands :
                       \E y \in before : trace[y].what = "init" /\ trace[y].n = n
                 /\ \A y \in before : trace[y].ok /\ Rank(trace[y].what) < Rank(e.what)
                 /\ e.what = "service-registry" => Has(RolesOfHost(e.host), ServiceRegistry)
                 /\ e.what \in {"proxy", "executor"} => Has(RolesOfHost(e.host), Executor)
                 /\ e.what = "executor" => \E y \in before : trace[y].what = "proxy"
           /\ e.what = "bootstrap" =>
                 \A y \in Sudos : (y > LastMark(x)) => y = x

\* The workflow is done on a stage of two hosts whose first host carries both
\* roles, ran all three role actions and then was the bootstrap leader.
C4_Witness ==
    /\ pc = "done"
    /\ Len(stage.nodes) = 2
    /\ leader = H1
    /\ \E x, y, z \in Sudos :
          /\ x < y /\ y < z
          /\ trace[x].host = H1 /\ trace[x].what = "service-registry"
          /\ trace[y].host = H1 /\ trace[y].what = "proxy"
          /\ trace[z].host = H1 /\ trace[z].what = "executor"

\* ---- C5
InScope ==
    pc \in {"cfg_init", "cfg_registry", "cfg_proxy", "cfg_executor", "cfg_exit",
            "cfg_exc", "boot_run", "boot_exit", "boot_exc"}

\* C5: every scope opened by Configure.configure or Configure.enter is
\* released by one disconnect_all when it is left, on the normal path and on
\* the path of a failed command alike, and every command is issued inside an
\* open, unreleased scope and on that scope's host.
C5_ScopedRelease ==
    /\ \A x \in DOMAIN trace :
          LET m == LastMark(x)
          IN /\ trace[x].ev = "open" => (m = 0 \/ trace[m].ev = "disconnect")
             /\ trace[x].ev \in {"sudo", "disconnect"} =>
                   /\ m > 0
                   /\ trace[m].ev = "open"
                   /\ trace[m].host = trace[x].host
    /\ ~InScope =>
          /\ hostString = NoHost
          /\ connections = {}
          /\ LET m == LastMark(Len(trace) + 1)
             IN m = 0 \/ (trace[m].ev = "disconnect" /\ m = Len(trace))
    /\ InScope => hostString # NoHost /\ connections \subseteq {hostString}

\* A first host configured and released, then a failure in the base
\* initialization of the second host, released as well.
C5_Witness ==
    /\ pc = "raised"
    /\ Cardinality({x \in DOMAIN trace : trace[x].ev = "disconnect"}) = 2
    /\ \E x \in Sudos : trace[x].what = "init" /\ ~trace[x].ok /\ trace[x].host = H2
    /\ \E x \in Sudos : trace[x].what = "executor" /\ trace[x].ok /\ trace[x].host = H1

\* ---- C6
Failed == {x \in Sudos : ~trace[x].ok}

Opened(host) == \E x \in DOMAIN trace : trace[x].ev = "open" /\ trace[x].host = host

\* C6 as claimed: when the workflow has ended, every host after one whose
\* configuration failed has had its configuration scope opened.
C6_OtherHostsStillConfigured ==
    pc \in {"raised", "done"} =>
        \A x \in DOMAIN stage.nodes :
            (\E f \in Failed : trace[f].host = stage.nodes[x].dns /\ trace[f].what # "bootstrap")
                => \A y \in DOMAIN stage.nodes : y > x => Opened(stage.nodes[y].dns)

\* C6, amended: a failed command is the last command of the workflow. Only
\* the release of its scope follows it: no other role action of that host, no
\* scope of a later host, no bootstrap.
C6_FailureStopsConfiguration ==
    \A f \in Failed :
        /\ pc \in {"cfg_exc", "boot_exc", "raised"}
        /\ \A y \in DOMAIN trace : y > f => trace[y].ev = "disconnect" /\ y = f + 1
        /\ trace[f].what # "bootstrap" =>
              \A y \in DOMAIN stage.nodes :
                  Opened(stage.nodes[y].dns) =>
                      \E z \in 1..f : trace[z].ev = "open" /\ trace[z].host = stage.nodes[y].dns

\* The first of two hosts failed in a role action, its scope is released and
\* the second host was never opened.
C6_Witness ==
    /\ pc = "raised"
    /\ Len(stage.nodes) = 2
    /\ \E f \in Failed : trace[f].host = H1 /\ trace[f].what = "service-registry"
    /\ ~Opened(H2)
    /\ trace[Len(trace)].ev = "disconnect"

\* ---- C7
ProvisioningDone ==
    /\ \E x \in DOMAIN calls : calls[x].op = "run_instances"
    /\ runs # <<>> /\ runs[Len(runs)].result = "returned"
    /\ polls # <<>> /\ LastPoll = [phase |-> 2, notReady |-> FALSE]
    /\ stage # NoStage

\* Every node's configuration scope was opened and released before position e
\* of the trace, and none is opened from e on.
ConfiguredBefore(e) ==
    /\ \A y \in DOMAIN stage.nodes :
          \E o, d \in 1..(e - 1) :
              /\ o < d
              /\ trace[o].ev = "open" /\ trace[o].what = "configure"
              /\ trace[o].host = stage.nodes[y].dns
              /\ trace[d].ev = "disconnect" /\ trace[d].host = stage.nodes[y].dns
    /\ \A x \in DOMAIN trace : x >= e => trace[x].what # "configure"

BootstrapCompleted ==
    \E b \in Sudos, d \in DOMAIN trace :
        /\ trace[b].what = "bootstrap" /\ trace[b].ok
        /\ d > b /\ trace[d].ev = "disconnect"

C7_Phases ==
    /\ trace # <<>> => ProvisioningDone
    /\ \A e \in DOMAIN trace : trace[e].what = "enter" => ConfiguredBefore(e)
    /\ leader # NoHost =>
          \E e \in 1..(Len(trace) + 1) :
              /\ ConfiguredBefore(e)
              /\ \A x \in DOMAIN trace : x >= e => trace[x].what \in {"enter", "bootstrap", ""}
    /\ written # NoConfig => BootstrapCompleted

\* C7: when the first configuration scope opens, reconciliation, reservation
\* and the readiness wait have returned and no provider call or poll is made
\* from then on; every node's configuration scope is released before the
\* bootstrap leader is chosen and the bootstrap scope opens; the stage
\* configuration is written only after the bootstrap action completed.
C7_PhaseOrder ==
    /\ []C7_Phases
    /\ [][trace # <<>> =>
             /\ calls' = calls /\ polls' = polls
             /\ secGroups' = secGroups /\ keyPairs' = keyPairs]_vars

\* The create command is done: groups were created, an instance was launched
\* and waited for, configured and bootstrapped, and the configuration written.
C7_Witness ==
    /\ pc = "done"
    /\ written # NoConfig
    /\ \E x \in DOMAIN calls : calls[x].op = "create_security_group"
    /\ Len(polls) = 4
    /\ \E x \in Sudos : trace[x].what = "executor"
    /\ BootstrapCompleted

\* ---- C8
\* C8: the bootstrap leader is the host of a node of the stage; at most one
\* bootstrap scope is opened and at most one bootstrap action is run, on the
\* leader, first in a scope opened by Configure.enter on the leader, without
\* the detach option; the workflow goes on to the stage configuration only
\* after that run has succeeded, and a finished workflow has run exactly one.
C8_BootstrapOnce ==
    LET B == {x \in Sudos : trace[x].what = "bootstrap"}
        E == {x \in DOMAIN trace : trace[x].ev = "open" /\ trace[x].what = "enter"}
    IN /\ leader # NoHost => \E n \in DOMAIN stage.nodes : stage.nodes[n].dns = leader
       /\ Cardinality(B) <= 1 /\ Cardinality(E) <= 1
       /\ \A e \in E : trace[e].host = leader
       /\ \A b \in B :
             /\ trace[b].host = leader
             /\ ~trace[b].detach
             /\ (b - 1) \in E
       /\ pc \in {"update_config", "done"} => \E b \in B : trace[b].ok
       /\ pc = "done" => Cardinality(B) = 1 /\ written # NoConfig

\* A finished workflow on two nodes whose leader was the second.
C8_Witness ==
    /\ pc = "done"
    /\ Len(stage.nodes) = 2
    /\ leader = H2
    /\ \E b \in Sudos : trace[b].what = "bootstrap" /\ trace[b].host = H2

\* ---- C9
Mutating == {"create_key_pair", "create_security_group", "authorize", "run_instances"}

\* C9: with a region that has no entry in AMI_MAPPING, no key pair is created,
\* no security group is created, no ingress rule is authorized and no instance
\* is launched.
C9_UnknownRegionNoSideEffects ==
    options.region \notin DOMAIN AMI_MAPPING =>
        \A x \in DOMAIN calls : calls[x].op \notin Mutating

\* ---- C10
MissingCredential ==
    \/ options.access_key_id = "" /\ environ.AWS_ACCESS_KEY_ID = ""
    \/ options.secret_access_key = "" /\ environ.AWS_SECRET_ACCESS_KEY = ""

\* C10: when a required credential is in neither the options nor the
\* environment, or a stage configuration of the name exists, the command makes
\* no provider call, gets no further than building its configuration and
\* exits with a non-zero status.
C10_PreconditionExit ==
    (existing \/ MissingCredential) =>
        /\ calls = <<>> /\ ec2 = <<>> /\ polls = <<>> /\ trace = <<>>
        /\ written = NoConfig
        /\ pc \in {"check_existing", "check_credentials", "build_config", "exited"}
        /\ existing => pc \in {"check_existing", "exited"}
        /\ pc = "exited" => exitStatus # 0

\* The command exited with status 1 for a missing secret access key.
C10_Witness ==
    /\ pc = "exited"
    /\ exitStatus = 1
    /\ ~existing
    /\ options.access_key_id # ""
    /\ options.secret_access_key = ""

\* ---- C11
\* C11: the stage AmazonWebServicesStage.get returns has no node whose state
\* is 'shutting-down' or 'terminated'.
C11_GetOnlyActive ==
    (pc = "got" /\ stage # NoStage) =>
        \A x \in DOMAIN stage.nodes : stage.nodes[x].state \in ActiveStates

\* ---- C12
\* The calls of the destroy under way, or of the one that has just returned.
DestroyCalls == {x \in DOMAIN calls : x > runStart}

TerminatesOf(id) ==
    Cardinality({x \in DestroyCalls : calls[x].op = "terminate" /\ calls[x].target = id})

\* C12: destroy makes no call but terminate; it calls terminate on no node
\* that was 'shutting-down' or 'terminated' when destroy began and at most once
\* on any other, and exactly once on each of those when it returns; an error
\* inside destroy comes from a terminate call on a node that was in neither
\* state; a destroy on nodes that are all in those states makes no call.
C12_DestroyIdempotent ==
    /\ pc \in {"destroy", "destroy_returned"} =>
          /\ \A x \in DestroyCalls : calls[x].op = "terminate"
          /\ \A n \in DOMAIN instances :
                TerminatesOf(instances[n].id) <=
                    (IF instances[n].state \in GoneStates THEN 0 ELSE 1)
          /\ secGroups = <<>> /\ keyPairs = {}
    /\ pc = "destroy_returned" =>
          \A n \in DOMAIN instances :
              TerminatesOf(instances[n].id) =
                  (IF instances[n].state \in GoneStates THEN 0 ELSE 1)
    /\ (pc = "raised" /\ calls[Len(calls)].op = "terminate") =>
          \E n \in DOMAIN instances :
              /\ instances[n].id = calls[Len(calls)].target
              /\ instances[n].state \notin GoneStates

\* A destroy of a stage with a terminated and a running node has returned, and
\* so has a second destroy of the same stage, which made no call.
C12_Witness ==
    /\ pc = "destroy_returned"
    /\ Len(runs) = 2
    /\ \E m, n \in DOMAIN runs[1].entry :
          /\ runs[1].entry[m].state = "terminated"
          /\ runs[1].entry[n].state = "running"
    /\ \A n \in DOMAIN instances : instances[n].state \in GoneStates
    /\ DestroyCalls = {}
    /\ \E x \in DOMAIN calls : calls[x].op = "terminate"

\* ---- C13
\* C13: every authorize call for a port-range entry carries the entry's
\* protocol and ports together with exactly one of the allowed CIDRs.
C13_OneCidrPerCall ==
    \A x \in DOMAIN calls :
        (calls[x].op = "authorize" /\ calls[x].args.src_group = <<>>) =>
            /\ Len(calls[x].args.rest) = 1
            /\ \E a \in DOMAIN allowed : calls[x].args.rest[1] = allowed[a]

\* ---- C14
Creates == {x \in DOMAIN calls : x > runStart /\ calls[x].op = "create_security_group"}

GroupMapping ==
    /\ \A r \in DOMAIN runs :
          runs[r].result = "returned" =>
              /\ DOMAIN runs[r].names = Roles
              /\ DOMAIN runs[r].ret = Roles
              /\ \A role \in Roles :
                    /\ runs[r].names[role] = name \o <<"-">> \o role
                    /\ runs[r].names[role] \in DOMAIN runs[r].prov
                    /\ runs[r].ret[role] = runs[r].prov[runs[r].names[role]].id
    /\ \A x, y \in Creates : calls[x].target = calls[y].target => x = y
    /\ \A x \in Creates : \E role \in Roles : calls[x].target = name \o <<"-">> \o role

\* C14: a run that returns maps exactly the roles of the spec, each to the
\* provider's group named '<prefix>-<role>'; within a run create_security_group
\* is called at most once per role, for such a name; and it is called only for
\* a name no group of the provider has at the time of the call.
C14_GroupMapping ==
    /\ []GroupMapping
    /\ [][(calls' # calls /\ calls'[Len(calls')].op = "create_security_group") =>
             calls'[Len(calls')].target \notin DOMAIN secGroups]_vars

\* A run has returned that found a group of the provider and created another.
C14_Witness ==
    /\ runs # <<>>
    /\ runs[1].result = "returned"
    /\ Len(spec) = 3
    /\ runs[1].nCreate \in {1, 2}
    /\ \E g \in DOMAIN runs[1].prov : runs[1].prov[g].rules = {ForeignRule}

\* ---- C15
\* The positions of a group list whose name is '<stageName>-' and a remainder.
Prefixed(sname, gs) ==
    {x \in DOMAIN gs :
        \E n \in 1..(Len(gs[x]) + 1) :
            gs[x] = sname \o <<"-">> \o SubSeq(gs[x], n, Len(gs[x]))}

Canonical(token) ==
    CASE token = <<"s", "r">> ->
            <<"s", "e", "r", "v", "i", "c", "e", "-", "r", "e", "g", "i", "s", "t", "r", "y">>
      [] token = <<"e", "x", "e", "c">> -> <<"e", "x", "e", "c", "u", "t", "o", "r">>
      [] OTHER -> token

\* roles holds, in the order of the list, one role for each prefixed group
\* name and nothing else.
ResolvedExactly(sname, gs, roles) ==
    LET P == Prefixed(sname, gs)
    IN /\ Len(roles) = Cardinality(P)
       /\ \A x \in P :
             roles[Cardinality({y \in P : y <= x})] =
                 Canonical(SubSeq(gs[x], Len(sname) + 2, Len(gs[x])))

\* C15: the roles the status command lists for a node are, for each group name
\* of the node that starts with '<stageName>-', the remainder with sr and exec
\* mapped to service-registry and executor, and nothing else; for stage
\* 'app-prod' and groups app-prod-sr, app-prod-exec, unrelated they are
\* service-registry and executor.
C15_RolesExact ==
    \A x \in DOMAIN rows :
        LET gs == stage.nodes[x].groups
        IN /\ ResolvedExactly(stage.name, gs, rows[x].roles)
           /\ Prefixed(stage.name, gs) = {} => rows[x].roles = <<>>
           /\ (stage.name = N_app_prod
                 /\ gs = <<GroupName(N_app_prod, R_sr), GroupName(N_app_prod, R_exec),
                           Unrelated>>) =>
                 rows[x].roles = <<Canonical(<<"s", "r">>), Canonical(<<"e", "x", "e", "c">>)>>

\* The rows of stage 'app-prod' are listed: a node with the groups of the
\* example and a node with no group of the stage.
C15_Witness ==
    /\ pc = "status_done"
    /\ stage.name = N_app_prod
    /\ Len(rows) = 2
    /\ Len(rows[1].roles) = 2
    /\ stage.nodes[2].groups = <<Unrelated>> /\ rows[2].roles = <<>>

\* ---- C16
BuiltInGroupNames ==
    { N_demo \o <<"-">> \o R_router, N_demo \o <<"-">> \o R_exec, N_demo \o <<"-">> \o R_sr }

BuiltInRoles ==
    { R_router, Canonical(<<"e", "x", "e", "c">>), Canonical(<<"s", "r">>) }

\* C16: create launches at most one instance, with one run_instances call; the
\* instance carries exactly the three groups reconciliation returned, named
\* demo-router, demo-exec and demo-sr; the stage create returns has that
\* instance as its only node, and the node's roles are router, executor and
\* service-registry.
C16_OneNodeAllRoles ==
    /\ Cardinality({x \in DOMAIN calls : calls[x].op = "run_instances"}) <= 1
    /\ Cardinality(DOMAIN ec2) <= 1
    /\ ec2 # <<>> =>
          /\ Len(instances) = 1 /\ instances[1].id = 1
          /\ Len(ec2[1].groups) = 3
          /\ Range(ec2[1].groups) = BuiltInGroupNames
          /\ Range(ec2[1].groups) = Range(runs[Len(runs)].names)
          /\ Range(ec2[1].groups) \subseteq DOMAIN secGroups
          /\ instances[1].groups = ec2[1].groups
    /\ stage # NoStage =>
          /\ Len(stage.nodes) = 1
          /\ stage.nodes[1].id = 1
          /\ stage.nodes[1].groups = ec2[1].groups
          /\ Len(IterRoles(stage)[1].roles) = 3
          /\ Range(IterRoles(stage)[1].roles) = BuiltInRoles

\* create has returned the stage of one running node, on a provider where the
\* groups did not exist before.
C16_Witness ==
    /\ stage # NoStage
    /\ pc = "configure"
    /\ ec2[1].state = "running"
    /\ Cardinality({x \in DOMAIN calls : calls[x].op = "create_security_group"}) = 3
    /\ Cardinality({x \in DOMAIN calls : calls[x].op = "run_instances"}) = 1

\* ---- C17
\* The pieces of a string between its commas.
RECURSIVE Pieces(_)
Pieces(s) ==
    IF \A x \in DOMAIN s : s[x] # ","
    THEN <<s>>
    ELSE LET c == CHOOSE x \in DOMAIN s : s[x] = "," /\ \A y \in 1..(x - 1) : s[y] # ","
         IN <<SubSeq(s, 1, c - 1)>> \o Pieces(SubSeq(s, c + 1, Len(s)))

Entries(s) == IF s = <<>> THEN <<>> ELSE Pieces(s)

\* The nodes of the stage that carry the group '<name>-sr'.
RegistryNodes ==
    {x \in DOMAIN stage.nodes :
        \E g \in DOMAIN stage.nodes[x].groups :
            stage.nodes[x].groups[g] = stage.name \o <<"-", "s", "r">>}

DockerRuns == {x \in Sudos : trace[x].what # "init"}

\* C17: the registry peer list handed to every registry, proxy, executor and
\* bootstrap start has exactly one entry '<host>:3222' for every node with the
\* service-registry role and no other entry, and all starts of one workflow
\* are handed the same list.
C17_RegistryPeers ==
    /\ \A e \in DockerRuns :
          LET E == Entries(trace[e].registry)
          IN /\ Len(E) = Cardinality(RegistryNodes)
             /\ \A n \in RegistryNodes :
                   Cardinality({x \in DOMAIN E :
                       E[x] = stage.nodes[n].dns \o <<":", "3", "2", "2", "2">>}) = 1
    /\ \A e, f \in DockerRuns : trace[e].registry = trace[f].registry

\* A finished workflow on two nodes, one of them a registry, in which a
\* registry, a proxy, an executor and the bootstrap were started.
C17_Witness ==
    /\ pc = "done"
    /\ Len(stage.nodes) = 2
    /\ Cardinality(RegistryNodes) = 1
    /\ \A w \in {"service-registry", "proxy", "executor", "bootstrap"} :
          \E e \in DockerRuns : trace[e].what = w

\* ---- C18
\* The stage with its node list in every order.
Reordered ==
    {[stage EXCEPT !.nodes = [x \in DOMAIN stage.nodes |-> stage.nodes[p[x]]]] :
        p \in Perms(DOMAIN stage.nodes)}

\* The entries of the registry nodes of a stage, in the order of its node list.
InNodeOrder(st) ==
    LET R == {x \in DOMAIN st.nodes :
                 \E g \in DOMAIN st.nodes[x].groups :
                     st.nodes[x].groups[g] = st.name \o <<"-", "s", "r">>}
    IN [c \in 1..Cardinality(R) |->
           LET x == CHOOSE y \in R : Cardinality({z \in R : z <= y}) = c
           IN st.nodes[x].dns \o <<":", "3", "2", "2", "2">>]

\* C18 as stated: the list handed to a start is the list computed for the
\* stage's nodes in any order.
C18_OrderIndependent ==
    \A e \in DockerRuns : \A st \in Reordered :
        trace[e].registry = MakeServiceRegistryOption(st)

\* C18, amended: the list handed to a start has its entries in the order of
\* the stage's node list; for the nodes in another order the list has the same
\* entries, in that order.
C18_NodeOrder ==
    \A e \in DockerRuns :
        /\ Entries(trace[e].registry) = InNodeOrder(stage)
        /\ \A st \in Reordered :
              /\ Entries(MakeServiceRegistryOption(st)) = InNodeOrder(st)
              /\ Range(Entries(MakeServiceRegistryOption(st))) =
                     Range(Entries(trace[e].registry))

\* A start was handed the list of a stage with two registry nodes.
C18_Witness ==
    /\ Cardinality(RegistryNodes) = 2
    /\ \E e \in DockerRuns :
          /\ trace[e].what = "bootstrap"
          /\ Len(Entries(trace[e].registry)) = 2

\* ---- C19
FailedSudos == {x \in Sudos : ~trace[x].ok}

Aborted ==
    /\ pc = "raised" => written = NoConfig
    /\ \A r \in DOMAIN runs :
          runs[r].result = "raised" =>
              /\ written = NoConfig /\ trace = <<>> /\ ec2 = <<>> /\ stage = NoStage
    /\ (pc = "raised" /\ trace = <<>>) => stage = NoStage
    /\ \A x \in FailedSudos :
          /\ written = NoConfig
          /\ pc \in {"cfg_exc", "boot_exc", "raised"}
          /\ \A y \in DOMAIN trace :
                y > x => (y = x + 1 /\ trace[y].ev = "disconnect")
    /\ written # NoConfig =>
          /\ pc = "done"
          /\ FailedSudos = {}
          /\ \A r \in DOMAIN runs : runs[r].result = "returned"
          /\ ProvisioningDone
          /\ ConfiguredBefore(Len(trace) + 1)
          /\ BootstrapCompleted

\* C19: after a provider error or a failed remote command nothing follows but
\* the release of the open scope: no call, no poll, no remote command and no
\* write; what has been written is never written again; and the stage
\* configuration is written only when reconciliation, reservation and the
\* wait returned, every node was configured and the bootstrap succeeded.
C19_FailureAborts ==
    /\ []Aborted
    /\ [][pc = "raised" => pc' = "raised"]_vars
    /\ [][written # NoConfig => written' = written]_vars
    /\ [][(pc = "raised" \/ FailedSudos # {}) =>
             /\ calls' = calls /\ polls' = polls /\ written' = written
             /\ \A x \in DOMAIN trace' : x > Len(trace) => trace'[x].ev = "disconnect"]_vars

\* The bootstrap action failed after provisioning and configuration went
\* through: the workflow is over and nothing is written.
C19_Witness ==
    /\ pc = "raised"
    /\ written = NoConfig
    /\ \E x \in FailedSudos : trace[x].what = "bootstrap"
    /\ \E x \in DOMAIN calls : calls[x].op = "run_instances"
    /\ trace[Len(trace)].ev = "disconnect"

\* ---- C20
\* C20: when an executor is started on any host, the registry has been
\* started on every host of the stage that carries the service-registry role.
C20_RegistriesBeforeExecutors ==
    \A x \in Sudos :
        trace[x].what = "executor" =>
            \A n \in RegistryNodes :
                \E y \in Sudos :
                    /\ y < x
                    /\ trace[y].what = "service-registry"
                    /\ trace[y].host = stage.nodes[n].dns

\* ---- C21
\* C21: the wait does not return while an instance handed to it is not running
\* with both status checks ok: the poll that ends the wait finds every
\* instance so.
C21_StuckBlocks ==
    [][(pc = "wait_status" /\ pc' = "wait_returned") =>
          \A x \in DOMAIN instances : Ready(instances[x].id)]_vars

\* ---- C22
\* C22: when a configuration session has been opened, the key file the stage
\* hands to the sessions is on the local disk.
C22_KeyFileBeforeUse ==
    trace # <<>> => stage.ssh_key_file \in keyFiles

\* ---- C23
\* C23: get returns no stage exactly when no instance of the provider belongs
\* to the stage, and the command that was handed no stage does not end in an
\* error.
C23_AbsentStageHandled ==
    /\ [](pc = "got" =>
            (stage = NoStage <=>
                \A id \in DOMAIN ec2 : ~Belongs(name, ec2[id].groups)))
    /\ [][(pc = "got" /\ stage = NoStage) => pc' # "raised"]_vars

\* ---- C24
\* The ingress rules the spec asks for on the group of a role.
SpecRules(role) ==
    LET rules == RulesOfRole(role)
    IN UNION { IF rules[x].kind = "port"
               THEN {[ip_protocol |-> rules[x].proto, from_port |-> rules[x].from,
                      to_port |-> rules[x].to, cidr_ip |-> allowed[a],
                      src_group |-> <<>>] : a \in DOMAIN allowed}
               ELSE {[ip_protocol |-> "", from_port |-> 0, to_port |-> 0, cidr_ip |-> "",
                      src_group |-> name \o <<"-">> \o rules[x].ref]}
             : x \in DOMAIN rules }

Complete(prov) ==
    \A role \in Roles :
        /\ name \o <<"-">> \o role \in DOMAIN prov
        /\ SpecRules(role) \subseteq prov[name \o <<"-">> \o role].rules

\* C24: when a run that a provider error aborted is followed by a run that
\* returns, on groups that hold no rule from elsewhere, every group of the spec
\* exists and holds every rule of its spec.
C24_RetryConverges ==
    \A r \in DOMAIN runs :
        ( /\ r < Len(runs)
          /\ runs[r].result = "raised"
          /\ runs[r + 1].result = "returned"
          /\ \A g \in DOMAIN runs[r + 1].prov : ForeignRule \notin runs[r + 1].prov[g].rules )
        => Complete(runs[r + 1].prov)

\* ---- C25
\* A group list made of groups '<other>-<role>' of another stage only.
OfAnotherStage(gs) ==
    /\ gs # <<>>
    /\ \E other \in {N_demos, N_demo_prod} :
          \A g \in DOMAIN gs :
              \E role \in {R_router, R_exec, R_sr} : gs[g] = other \o <<"-">> \o role

\* C25: the stage get returns for a name holds no node of another stage, and
\* destroy terminates no node of another stage.
C25_StagesIsolated ==
    /\ stage # NoStage =>
          \A x \in DOMAIN stage.nodes : ~OfAnotherStage(stage.nodes[x].groups)
    /\ \A c \in DOMAIN calls :
          calls[c].op = "terminate" => ~OfAnotherStage(ec2[calls[c].target].groups)

\* ---- C26
\* The instances of the stage that are not terminated.
LiveInstances ==
    {id \in DOMAIN ec2 : Belongs(name, ec2[id].groups) /\ ec2[id].state # "terminated"}

\* C26: the provider holds at most one instance of the stage that is not
\* terminated.
C26_OneLiveInstance == Cardinality(LiveInstances) <= 1

====
